---- MODULE Spec2Model ----
(***************************************************************************)
(* The workspaceStorage cleaner (src/main.py and its later revision        *)
(* src/workspaceStorage_cleaner.py) as a state machine.  One run of main() *)
(* is one behaviour: the storage roots and their entries are chosen in     *)
(* Init, the run validates the default root, asks for an alternative,      *)
(* scans, plans, asks for confirmation and removes the unwanted entries.   *)
(***************************************************************************)
EXTENDS Integers, Sequences, FiniteSets, TLC

\* ------------------------------------------------------------------ bounds
MaxEntries == 3
PayloadBytes == 3

\* ------------------------------------------------------- program constants
SecondsPerDay == 86400
StaleDays == 30

Scripts == {"main.py", "workspaceStorage_cleaner.py"}
Final == "workspaceStorage_cleaner.py"

\* ------------------------------------------------------------- file system
NoPath == "none"
DefaultPath == "default"
AltPath == "alt"
BogusPath == "bogus"
Paths == {DefaultPath, AltPath, BogusPath}

\* The workspaces the manifests may point at: /w is a directory, /f is a
\* regular file, anything else does not exist.
WorkspaceDirs == {<<"w">>}
WorkspaceFiles == {<<"f">>}

NoURI == [scheme |-> "", path |-> <<>>]
URIs == {[scheme |-> "file", path |-> <<"%77">>],
         [scheme |-> "file", path |-> <<"f">>],
         [scheme |-> "file", path |-> <<"x">>]}

Ages == {StaleDays * SecondsPerDay,
         StaleDays * SecondsPerDay + 1,
         (StaleDays + 1) * SecondsPerDay}

FolderEntries == [manifest : {"folder"}, uri : URIs, age : Ages]
OtherEntries == [manifest : {"missing", "unreadable", "malformed", "nofolder"},
                 uri : {NoURI}, age : {StaleDays * SecondsPerDay}]
Entries == FolderEntries \cup OtherEntries
EntryLists == UNION {[1..n -> Entries] : n \in 0..MaxEntries}
AltChildren == <<[manifest |-> "folder",
                  uri |-> [scheme |-> "file", path |-> <<"x">>],
                  age |-> (StaleDays + 1) * SecondsPerDay]>>

VARIABLES
    script,           \* which of the two scripts runs
    os,               \* sys.platform
    kind,             \* path -> "dir" | "file" | "absent"
    children,         \* path -> sequence of entries, in iterdir order
    disk,             \* path -> status of each child: present | partial | deleted
    pc,               \* position of main()
    wss_path,         \* main's wss_path
    supplied,         \* last value returned by askForValidWSSPath
    validated,        \* paths for which isValidWSSPath returned True
    scanned,          \* argument of parseWSSFolder
    folders,          \* main's folders
    unwanted_folders, \* main's unwanted_folders
    unwanted_size,    \* main's unwanted_size
    total_size,       \* main's total_size
    percentage,       \* main's percentage, in hundredths of a percent
    answer,           \* result of the "clear ALL unwanted folders?" question
    i,                \* completed iterations of the removal loop
    raised,           \* last exception raised
    outcome           \* the message the run ended with

vars == <<script, os, kind, children, disk, pc, wss_path, supplied, validated,
          scanned, folders, unwanted_folders, unwanted_size, total_size,
          percentage, answer, i, raised, outcome>>

fsvars == <<script, os, kind, children>>

\* ---------------------------------------------------------------- helpers
getDefaultWSSFolderPath(platform) ==
    IF platform \in {"linux", "linux2", "darwin", "win32", "win64"}
    THEN DefaultPath ELSE ""

\* Path(path).iterdir() / os.listdir(path): the children still on disk.
iterdir(p) ==
    SelectSeq([k \in 1..Len(children[p]) |-> k], LAMBDA k : disk[p][k] # "deleted")

hasManifest(p, k) == children[p][k].manifest # "missing"

isValidRaises(p) == script = "main.py" /\ kind[p] = "file"

isValidWSSPath(p) ==
    /\ IF script = "main.py" THEN kind[p] # "absent" ELSE kind[p] = "dir"
    /\ \A j \in 1..Len(iterdir(p)) : hasManifest(p, iterdir(p)[j])

Lower(s) == IF s = "N" THEN "n" ELSE s

askYesNoQuestion(inp, return_for_none) ==
    IF Lower(inp) \in {"y", "yes"} THEN "yes"
    ELSE IF Lower(inp) \in {"n", "no"} THEN "no"
    ELSE IF script = Final /\ inp = ""
         THEN (IF return_for_none THEN "yes" ELSE "no")
    ELSE "again"

File(n) == [type |-> "file", size |-> n, children |-> <<>>]
Dir(c) == [type |-> "dir", size |-> 0, children |-> c]

RECURSIVE sizeFrom(_, _)
sizeFrom(cs, k) ==
    IF k > Len(cs) THEN 0
    ELSE (IF cs[k].type = "file" THEN cs[k].size
          ELSE sizeFrom(cs[k].children, 1)) + sizeFrom(cs, k + 1)

getSizeOfFolder(d) == sizeFrom(d.children, 1)

ManifestBytes(e) ==
    CASE e.manifest = "malformed" -> 1
      [] e.manifest = "nofolder" -> 2
      [] OTHER -> 2 + Len(e.uri.path)

EntryTree(e) ==
    Dir((IF e.manifest = "missing" THEN <<>> ELSE <<File(ManifestBytes(e))>>)
        \o <<Dir(<<File(PayloadBytes)>>)>>)

RootTree(p) ==
    Dir([j \in 1..Len(iterdir(p)) |-> EntryTree(children[p][iterdir(p)[j]])])

urlparse_path(uri) == uri.path

unquote(path) ==
    [k \in 1..Len(path) |->
        CASE path[k] = "%77" -> "w"
          [] path[k] = "%66" -> "f"
          [] OTHER -> path[k]]

workspace_exists(uri) ==
    LET target == unquote(urlparse_path(uri))
    IN  IF script = "main.py"
        THEN target \in WorkspaceDirs \cup WorkspaceFiles
        ELSE target \in WorkspaceDirs

is_old(age) == (age \div SecondsPerDay) > StaleDays

\* loadManifest with a malformed workspace.json swallowed (try/except: continue)
loadManifest_Mut(e) ==
    CASE e.manifest = "missing" -> "FileNotFoundError"
      [] e.manifest = "unreadable" -> "PermissionError"
      [] e.manifest = "malformed" -> "continue"
      [] e.manifest = "nofolder" -> "continue"
      [] OTHER -> "append"

loadManifest(e) ==
    CASE e.manifest = "missing" -> "FileNotFoundError"
      [] e.manifest = "unreadable" -> "PermissionError"
      [] e.manifest = "malformed" -> "JSONDecodeError"
      [] e.manifest = "nofolder" -> "continue"
      [] OTHER -> "append"

classify(p, k) ==
    LET e == children[p][k]
    IN  [path |-> <<p, k>>,
         workspace_exists |-> workspace_exists(e.uri),
         is_old |-> is_old(e.age),
         sizeinbytes |-> getSizeOfFolder(EntryTree(e))]

RECURSIVE parseFrom(_, _, _)
parseFrom(p, todo, acc) ==
    IF todo = <<>> THEN [raised |-> "", list |-> acc]
    ELSE LET k == Head(todo)
             step == loadManifest(children[p][k])
         IN  IF step = "continue" THEN parseFrom(p, Tail(todo), acc)
             ELSE IF step = "append"
                  THEN parseFrom(p, Tail(todo), Append(acc, classify(p, k)))
             ELSE [raised |-> step, list |-> <<>>]

parseWSSFolder(p) ==
    IF kind[p] = "absent" THEN [raised |-> "FileNotFoundError", list |-> <<>>]
    ELSE IF kind[p] = "file" THEN [raised |-> "NotADirectoryError", list |-> <<>>]
    ELSE parseFrom(p, iterdir(p), <<>>)

\* unwanted without the filter
unwanted_Mut(fs) == fs

unwanted(fs) == SelectSeq(fs, LAMBDA x : x.is_old \/ ~x.workspace_exists)

RECURSIVE sumSizes(_)
sumSizes(fs) == IF fs = <<>> THEN 0 ELSE Head(fs).sizeinbytes + sumSizes(Tail(fs))

\* totalSize taken over the inventory instead of the root
totalSize_Mut(p, fs) == sumSizes(fs)

totalSize(p, fs) == getSizeOfFolder(RootTree(p))

\* round(100 * u / t, 2), as a number of hundredths
round2(u, t) ==
    LET n == 10000 * u
        q == n \div t
        r == n % t
    IN  IF 2 * r < t THEN q
        ELSE IF 2 * r > t THEN q + 1
        ELSE IF q % 2 = 0 THEN q ELSE q + 1

\* removalHandler with one broad except clause for everything
removalHandler_Mut(exc) == "failed"

removalHandler(exc) == IF exc = "KeyboardInterrupt" THEN "interrupted" ELSE "failed"

topLevelHandler(exc) == IF exc = "KeyboardInterrupt" THEN "interrupted" ELSE "exception"

rmtree(path, status) ==
    [disk EXCEPT ![path[1]] = [@ EXCEPT ![path[2]] = status]]

\* ------------------------------------------------------------------- Init
Init ==
    /\ script \in Scripts
    /\ os \in {"linux", "other"}
    /\ kind \in [Paths -> {"dir", "file", "absent"}]
    /\ kind[AltPath] = "dir"
    /\ kind[BogusPath] = "absent"
    /\ os = "other" => kind[DefaultPath] = "absent"
    /\ \E l \in EntryLists :
          /\ (kind[DefaultPath] # "dir" => l = <<>>)
          /\ children = [p \in Paths |->
                            IF p = DefaultPath THEN l
                            ELSE IF p = AltPath THEN AltChildren ELSE <<>>]
    /\ disk = [p \in Paths |-> [k \in 1..Len(children[p]) |-> "present"]]
    /\ pc = "start"
    /\ wss_path = NoPath
    /\ supplied = NoPath
    /\ validated = {}
    /\ scanned = NoPath
    /\ folders = <<>>
    /\ unwanted_folders = <<>>
    /\ unwanted_size = 0
    /\ total_size = 0
    /\ percentage = 0
    /\ answer = "none"
    /\ i = 0
    /\ raised = ""
    /\ outcome = "none"

\* ---------------------------------------------------------------- actions
YesNoInputs == {"y", "N", "", "maybe"}

finish(exc, msg) ==
    /\ raised' = exc
    /\ outcome' = msg
    /\ pc' = "done"

Start ==
    /\ pc = "start"
    /\ wss_path' = getDefaultWSSFolderPath(os)
    /\ IF wss_path' = ""
       THEN finish("", "unsupported") /\ UNCHANGED validated
       ELSE IF isValidRaises(wss_path')
       THEN finish("NotADirectoryError", topLevelHandler("NotADirectoryError"))
            /\ UNCHANGED validated
       ELSE IF ~isValidWSSPath(wss_path')
       THEN pc' = "ask_path" /\ UNCHANGED <<validated, raised, outcome>>
       ELSE /\ validated' = validated \cup {wss_path'}
            /\ pc' = "ask_alternative"
            /\ UNCHANGED <<raised, outcome>>
    /\ UNCHANGED <<fsvars, disk, supplied, scanned, folders, unwanted_folders,
                   unwanted_size, total_size, percentage, answer, i>>

AnswerAlternative ==
    /\ pc = "ask_alternative"
    /\ \E inp \in YesNoInputs :
          LET r == askYesNoQuestion(inp, FALSE)
          IN  pc' = (IF r = "yes" THEN "ask_path"
                     ELSE IF r = "no" THEN "scan" ELSE pc)
    /\ UNCHANGED <<fsvars, disk, wss_path, supplied, validated, scanned, folders,
                   unwanted_folders, unwanted_size, total_size, percentage,
                   answer, i, raised, outcome>>

\* askForValidWSSPath(), called from main with its result discarded
askForValidWSSPath ==
    /\ pc = "ask_path"
    /\ \E p \in Paths :
          IF isValidRaises(p)
          THEN finish("NotADirectoryError", topLevelHandler("NotADirectoryError"))
               /\ UNCHANGED <<supplied, validated>>
          ELSE IF isValidWSSPath(p)
          THEN /\ supplied' = p
               /\ validated' = validated \cup {p}
               /\ pc' = "scan"
               /\ UNCHANGED <<raised, outcome>>
          ELSE UNCHANGED <<pc, supplied, validated, raised, outcome>>
    /\ UNCHANGED <<fsvars, disk, wss_path, scanned, folders, unwanted_folders,
                   unwanted_size, total_size, percentage, answer, i>>

InterruptPrompt ==
    /\ pc \in {"ask_alternative", "ask_path", "confirm"}
    /\ finish("KeyboardInterrupt", topLevelHandler("KeyboardInterrupt"))
    /\ UNCHANGED <<fsvars, disk, wss_path, supplied, validated, scanned, folders,
                   unwanted_folders, unwanted_size, total_size, percentage,
                   answer, i>>

Scan ==
    /\ pc = "scan"
    /\ scanned' = wss_path
    /\ LET res == parseWSSFolder(wss_path)
           uw == unwanted(res.list)
           tot == totalSize(wss_path, res.list)
       IN  IF res.raised # ""
           THEN /\ finish(res.raised, topLevelHandler(res.raised))
                /\ UNCHANGED <<folders, unwanted_folders, unwanted_size,
                               total_size, percentage>>
           ELSE /\ folders' = res.list
                /\ unwanted_folders' = uw
                /\ unwanted_size' = sumSizes(uw)
                /\ total_size' = tot
                /\ IF uw = <<>>
                   THEN finish("", "nothing_found") /\ UNCHANGED percentage
                   ELSE IF tot = 0
                   THEN finish("ZeroDivisionError", topLevelHandler("ZeroDivisionError"))
                        /\ UNCHANGED percentage
                   ELSE /\ percentage' = round2(sumSizes(uw), tot)
                        /\ pc' = "confirm"
                        /\ UNCHANGED <<raised, outcome>>
    /\ UNCHANGED <<fsvars, disk, wss_path, supplied, validated, answer, i>>

\* AnswerClear with the answer ignored: the loop runs whatever the answer
AnswerClear_Mut ==
    /\ pc = "confirm"
    /\ \E inp \in YesNoInputs :
          LET r == askYesNoQuestion(inp, FALSE)
          IN  IF r = "again"
              THEN UNCHANGED <<answer, pc>>
              ELSE answer' = r /\ pc' = "remove"
    /\ UNCHANGED <<fsvars, disk, wss_path, supplied, validated, scanned, folders,
                   unwanted_folders, unwanted_size, total_size, percentage, i,
                   raised, outcome>>

AnswerClear ==
    /\ pc = "confirm"
    /\ \E inp \in YesNoInputs :
          LET r == askYesNoQuestion(inp, FALSE)
          IN  IF r = "yes"
              THEN /\ answer' = "yes"
                   /\ pc' = "remove"
                   /\ UNCHANGED <<raised, outcome>>
              ELSE IF r = "no"
              THEN answer' = "no" /\ finish("", "declined")
              ELSE UNCHANGED <<answer, pc, raised, outcome>>
    /\ UNCHANGED <<fsvars, disk, wss_path, supplied, validated, scanned, folders,
                   unwanted_folders, unwanted_size, total_size, percentage, i>>

RemoveNext ==
    /\ pc = "remove"
    /\ i < Len(unwanted_folders)
    /\ disk' = rmtree(unwanted_folders[i + 1].path, "deleted")
    /\ i' = i + 1
    /\ UNCHANGED <<fsvars, pc, wss_path, supplied, validated, scanned, folders,
                   unwanted_folders, unwanted_size, total_size, percentage,
                   answer, raised, outcome>>

\* RemoveFails with the try inside the loop: the error is swallowed and the
\* loop goes on with the next entry
RemoveFails_Mut ==
    /\ pc = "remove"
    /\ i < Len(unwanted_folders)
    /\ \E st \in {"present", "partial"} :
          disk' = rmtree(unwanted_folders[i + 1].path, st)
    /\ i' = i + 1
    /\ raised' = "OSError"
    /\ UNCHANGED <<fsvars, pc, outcome, wss_path, supplied, validated, scanned,
                   folders, unwanted_folders, unwanted_size, total_size,
                   percentage, answer>>

RemoveFails ==
    /\ pc = "remove"
    /\ i < Len(unwanted_folders)
    /\ \E st \in {"present", "partial"} :
          disk' = rmtree(unwanted_folders[i + 1].path, st)
    /\ finish("OSError", removalHandler("OSError"))
    /\ UNCHANGED <<fsvars, wss_path, supplied, validated, scanned, folders,
                   unwanted_folders, unwanted_size, total_size, percentage,
                   answer, i>>

InterruptRemoval ==
    /\ pc = "remove"
    /\ IF i < Len(unwanted_folders)
       THEN \E st \in {"present", "partial", "deleted"} :
               disk' = rmtree(unwanted_folders[i + 1].path, st)
       ELSE UNCHANGED disk
    /\ finish("KeyboardInterrupt", removalHandler("KeyboardInterrupt"))
    /\ UNCHANGED <<fsvars, wss_path, supplied, validated, scanned, folders,
                   unwanted_folders, unwanted_size, total_size, percentage,
                   answer, i>>

ReportSuccess ==
    /\ pc = "remove"
    /\ i = Len(unwanted_folders)
    /\ finish("", "success")
    /\ UNCHANGED <<fsvars, disk, wss_path, supplied, validated, scanned, folders,
                   unwanted_folders, unwanted_size, total_size, percentage,
                   answer, i>>

Next ==
    \/ Start
    \/ AnswerAlternative
    \/ askForValidWSSPath
    \/ InterruptPrompt
    \/ Scan
    \/ AnswerClear
    \/ RemoveNext
    \/ RemoveFails
    \/ InterruptRemoval
    \/ ReportSuccess

Spec == Init /\ [][Next]_vars

TypeOK ==
    /\ pc \in {"start", "ask_alternative", "ask_path", "scan", "confirm", "remove", "done"}
    /\ outcome \in {"none", "unsupported", "exception", "nothing_found",
                    "declined", "success", "interrupted", "failed"}
    /\ i \in 0..Len(unwanted_folders)

\* ------------------------------------------------------------- properties
status(path) == disk[path[1]][path[2]]

entryOf(f) == children[f.path[1]][f.path[2]]

AllPresent == \A p \in Paths : \A k \in 1..Len(children[p]) : disk[p][k] = "present"

inventoryPaths == {folders[j].path : j \in 1..Len(folders)}

childrenWith(p, ms) == {<<p, k>> : k \in {n \in 1..Len(children[p]) : children[p][n].manifest \in ms}}

RECURSIVE skippedBytes(_, _)
skippedBytes(p, k) ==
    IF k > Len(children[p]) THEN 0
    ELSE (IF children[p][k].manifest = "nofolder"
          THEN ManifestBytes(children[p][k]) + PayloadBytes ELSE 0)
         + skippedBytes(p, k + 1)

\* C1: parseWSSFolder is only ever invoked on a path for which isValidWSSPath
\* returned true, also when the default path is invalid and the user was
\* asked for another path.
C1_ScanOnlyValidated == scanned # NoPath => scanned \in validated

\* C2: no entry directory is deleted unless the confirmation question was
\* answered yes: when it was answered no, never answered (interrupt) or never
\* asked (nothing eligible), every directory of the start is still on disk.
C2_NoDeletionWithoutYes == answer # "yes" => AllPresent

C2_Witness ==
    /\ outcome = "declined"
    /\ Len(unwanted_folders) >= 2
    /\ AllPresent

\* C3: the removal loop deletes the planned entries in list order and is not
\* transactional: when deleting entry k = i + 1 fails, entries 1..k-1 are
\* deleted and entries k+1..n are still on disk, never attempted.
C3_PrefixDeleted ==
    answer = "yes" =>
        \A j \in 1..Len(unwanted_folders) :
            /\ j <= i => status(unwanted_folders[j].path) = "deleted"
            /\ j > i + 1 => status(unwanted_folders[j].path) = "present"
            /\ (j = i + 1 /\ outcome = "failed") =>
                   status(unwanted_folders[j].path) # "deleted"

C3_Witness ==
    /\ outcome = "failed"
    /\ raised = "OSError"
    /\ Len(unwanted_folders) = 3
    /\ i = 1
    /\ status(unwanted_folders[1].path) = "deleted"
    /\ status(unwanted_folders[3].path) = "present"

\* C4: a user interrupt at the confirmation question or in the removal loop
\* ends the run in the cancellation outcome, distinct from the failure and the
\* success outcome, and nothing is deleted after it; success is reported only
\* when every planned entry was deleted, never after an interrupt or a failed
\* deletion.
C4_Cancellation ==
    /\ [](/\ raised = "KeyboardInterrupt" => (pc = "done" /\ outcome = "interrupted")
          /\ raised = "OSError" => (pc = "done" /\ outcome = "failed")
          /\ outcome = "success" =>
                /\ raised = ""
                /\ i = Len(unwanted_folders)
                /\ \A j \in 1..Len(unwanted_folders) :
                       status(unwanted_folders[j].path) = "deleted")
    /\ [][raised = "KeyboardInterrupt" => disk' = disk]_vars

C4_Witness ==
    /\ raised = "KeyboardInterrupt"
    /\ outcome = "interrupted"
    /\ answer = "yes"
    /\ Len(unwanted_folders) = 3
    /\ i = 1
    /\ status(unwanted_folders[3].path) = "present"

\* C5: a run only ever touches directories that the scan put in the inventory
\* as stale or with a non-existing workspace; entries that are neither, and
\* entries skipped for lack of a folder key, stay untouched whatever the
\* outcome.
C5_OnlyEligibleTouched ==
    \A p \in Paths : \A k \in 1..Len(children[p]) :
        disk[p][k] # "present" =>
            \E j \in 1..Len(folders) :
                /\ folders[j].path = <<p, k>>
                /\ folders[j].is_old \/ ~folders[j].workspace_exists

C5_Witness ==
    /\ outcome = "success"
    /\ Len(unwanted_folders) >= 1
    /\ Len(folders) > Len(unwanted_folders)
    /\ \E k \in 1..Len(children[scanned]) :
          children[scanned][k].manifest = "nofolder" /\ disk[scanned][k] = "present"
    /\ \E j \in 1..Len(folders) :
          ~folders[j].is_old /\ folders[j].workspace_exists
          /\ status(folders[j].path) = "present"

C7_StalenessBoundary ==
    \A j \in 1..Len(folders) :
        /\ entryOf(folders[j]).age = StaleDays * SecondsPerDay => ~folders[j].is_old
        /\ entryOf(folders[j]).age = StaleDays * SecondsPerDay + 1 => folders[j].is_old

\* C8: for every classified entry, workspaceExists is true exactly when the
\* percent-decoded, scheme-stripped folder reference is an existing directory.
C8_WorkspaceExistsIffDir ==
    \A j \in 1..Len(folders) :
        folders[j].workspace_exists <=>
            (unquote(entryOf(folders[j]).uri.path) \in WorkspaceDirs)

\* C9 as stated: the denominator of the percentage is the sum of sizeBytes
\* over the inventory, skipped entries not counted.
C9_TotalIsInventorySum ==
    pc = "confirm" =>
        /\ total_size = sumSizes(folders)
        /\ 2 * (percentage * sumSizes(folders) - 10000 * unwanted_size) <= sumSizes(folders)
        /\ 2 * (10000 * unwanted_size - percentage * sumSizes(folders)) <= sumSizes(folders)

\* C9 amended: the denominator is the recursive size of the whole storage
\* root, that is the sum of sizeBytes over the inventory plus the bytes of the
\* entries skipped for lack of a folder key; the percentage is
\* 100 * unwanted_size / total_size rounded to 2 decimals.
C9_TotalIsRootSize ==
    pc = "confirm" =>
        /\ unwanted_size = sumSizes(unwanted_folders)
        /\ total_size = sumSizes(folders) + skippedBytes(scanned, 1)
        /\ 2 * (percentage * total_size - 10000 * unwanted_size) <= total_size
        /\ 2 * (10000 * unwanted_size - percentage * total_size) <= total_size

C9_Witness ==
    /\ pc = "confirm"
    /\ childrenWith(scanned, {"nofolder"}) # {}
    /\ Len(folders) > Len(unwanted_folders)
    /\ total_size > sumSizes(folders)
    /\ percentage > 0

\* C10: once the user has supplied a validated alternative path, the scan
\* and the deletions operate on that path and never on the default path.
C10_SuppliedPathUsed ==
    (supplied # NoPath /\ scanned # NoPath) =>
        /\ scanned = supplied
        /\ \A p \in Paths \ {supplied} :
              \A k \in 1..Len(children[p]) : disk[p][k] = "present"
====
